---- MODULE Spec2Model ----
(***************************************************************************)
(* OffsetTree: a B+ tree over an append-only store (src/src/offset_tree.rs) *)
(*                                                                         *)
(* The in-memory tree is a nested value:                                   *)
(*   NodeRef  = [tag |-> "Unloaded", offset |-> o]                         *)
(*            | [tag |-> "Loaded",   node   |-> n]                         *)
(*   Node     = [node_type, keys, children, modified]                      *)
(*   DiskNode = [node_type, keys, children]     (children are offsets)     *)
(* Vec indices are 0-based as in the source; At/InsertAt/... translate to  *)
(* the 1-based sequences of TLA+.                                          *)
(*                                                                         *)
(* Every method that can fail returns a record with a field st:            *)
(*   "ok"    the method returned Ok                                        *)
(*   "err"   it returned Err(DecodingError)                                *)
(*   "panic" it panicked (assert!, index out of bounds, panic!)            *)
(* together with the receiver as the call left it (node / ref) and         *)
(* the sequence of offsets it asked the backend to decode (reads).         *)
(*                                                                         *)
(* Spec runs the public calls (offset_for, contains, insert) on a tree     *)
(* made by empty or from_root_offset. SplitSpec applies the threshold test *)
(* and split_in_place, the tail of both insert steps, to one node.         *)
(***************************************************************************)
EXTENDS Integers, Sequences, FiniteSets, TLC

VARIABLES
    root_reference,   \* OffsetTree.root_reference
    order,            \* OffsetTree.order
    disk,             \* the backend: offset -> stored DiskNode
    made_by,          \* "empty" or "from_root_offset"
    inserted,         \* key -> value-reference of the insert calls that returned Ok
    last,             \* the last top-level call and what it returned
    status            \* "running", or "panicked" once a call has panicked

vars == <<root_reference, order, disk, made_by, inserted, last, status>>

---------------------------------------------------------------------------
(* Bounds *)

MaxKey == 3
MaxDepth == 2
MaxOrder == 5

Keys == 1..MaxKey
Orders == {MaxOrder}
\* value-references handed to insert, and the one stored with key k
InsertValues == {20, 21}
StoredValue(k) == 10 + k

---------------------------------------------------------------------------
(* Vec<T> *)

At(v, i) == v[i + 1]

\* Vec::insert(i, x); the caller checks i <= len (it panics otherwise)
InsertAt(v, i, x) == SubSeq(v, 1, i) \o <<x>> \o SubSeq(v, i + 1, Len(v))

SetAt(v, i, x) == [v EXCEPT ![i + 1] = x]

\* what v.drain(half..) leaves, and what it yields
Lower(v, half) == SubSeq(v, 1, half)
Upper(v, half) == SubSeq(v, half + 1, Len(v))

\* slice::binary_search: bisection over [lo, hi)
RECURSIVE Bisect(_, _, _, _)
Bisect(keys, key, lo, hi) ==
    IF lo >= hi THEN [found |-> FALSE, index |-> lo]
    ELSE LET mid == lo + ((hi - lo) \div 2) IN
         IF At(keys, mid) = key THEN [found |-> TRUE, index |-> mid]
         ELSE IF At(keys, mid) < key THEN Bisect(keys, key, mid + 1, hi)
         ELSE Bisect(keys, key, lo, mid)

binary_search(keys, key) == Bisect(keys, key, 0, Len(keys))

---------------------------------------------------------------------------
(* NodeRef and the decoding of stored records *)

from_offset(offset) == [tag |-> "Unloaded", offset |-> offset]

from_boxed_node(node) == [tag |-> "Loaded", node |-> node]

\* decode::<DiskNode>(reader, offset) fails: the read of an offset in bad fails
\* (IoError), and so does decoding where no node record is stored (Corrupt)
DecodeFails(dsk, bad, offset) ==
    \/ offset \in bad
    \/ offset \notin DOMAIN dsk

\* From<DiskNode<K>> that hands out the node already marked
FromDiskNode_dirty(obj) ==
    [node_type |-> obj.node_type,
     keys      |-> obj.keys,
     children  |-> [i \in 1..Len(obj.children) |-> from_offset(obj.children[i])],
     modified  |-> TRUE]

\* From<DiskNode<K>> for Node<K>
FromDiskNode(obj) ==
    [node_type |-> obj.node_type,
     keys      |-> obj.keys,
     children  |-> [i \in 1..Len(obj.children) |-> from_offset(obj.children[i])],
     modified  |-> FALSE]

\* NodeRef::load that decodes the record a second time before it keeps it
NodeRef_load_twice(ref, dsk, bad) ==
    IF ref.tag = "Unloaded"
    THEN IF DecodeFails(dsk, bad, ref.offset)
         THEN [st |-> "err", ref |-> ref, reads |-> <<ref.offset>>]
         ELSE [st |-> "ok",
               ref |-> from_boxed_node(FromDiskNode(dsk[ref.offset])),
               reads |-> <<ref.offset, ref.offset>>]
    ELSE [st |-> "ok", ref |-> ref, reads |-> <<>>]

\* NodeRef::load
NodeRef_load(ref, dsk, bad) ==
    IF ref.tag = "Unloaded"
    THEN IF DecodeFails(dsk, bad, ref.offset)
         THEN [st |-> "err", ref |-> ref, reads |-> <<ref.offset>>]
         ELSE [st |-> "ok",
               ref |-> from_boxed_node(FromDiskNode(dsk[ref.offset])),
               reads |-> <<ref.offset>>]
    ELSE [st |-> "ok", ref |-> ref, reads |-> <<>>]

\* NodeRef::get that takes a failed load for an empty leaf
NodeRef_get_lenient(ref, dsk, bad) ==
    LET l == NodeRef_load(ref, dsk, bad) IN
    IF l.st = "ok" THEN l
    ELSE [l EXCEPT !.st = "ok",
                   !.ref = from_boxed_node([node_type |-> "Leaf", keys |-> <<>>,
                                            children |-> <<>>, modified |-> FALSE])]

\* NodeRef::get that marks the node as get_mut does
NodeRef_get_marking(ref, dsk, bad) ==
    LET l == NodeRef_load(ref, dsk, bad) IN
    IF l.st = "ok"
    THEN [l EXCEPT !.ref = from_boxed_node([l.ref.node EXCEPT !.modified = TRUE])]
    ELSE l

\* NodeRef::get
NodeRef_get(ref, dsk, bad) == NodeRef_load(ref, dsk, bad)

\* NodeRef::get_mut that marks the resolved children of the node as well
NodeRef_get_mut_deep(ref, dsk, bad) ==
    LET l == NodeRef_load(ref, dsk, bad)
        Marked(child) == IF child.tag = "Loaded"
                         THEN from_boxed_node([child.node EXCEPT !.modified = TRUE])
                         ELSE child
    IN
    IF l.st = "ok"
    THEN [l EXCEPT !.ref = from_boxed_node(
                      [l.ref.node EXCEPT !.modified = TRUE,
                                         !.children = [i \in DOMAIN @ |-> Marked(@[i])]])]
    ELSE l

\* NodeRef::get_mut: load, then n.modified = true
NodeRef_get_mut(ref, dsk, bad) ==
    LET l == NodeRef_load(ref, dsk, bad) IN
    IF l.st = "ok"
    THEN [l EXCEPT !.ref = from_boxed_node([l.ref.node EXCEPT !.modified = TRUE])]
    ELSE l

---------------------------------------------------------------------------
(* Search *)

\* index_of that goes right of a separator equal to the key
index_of_after(node, key) ==
    LET b == binary_search(node.keys, key) IN
    [panic |-> node.node_type = "Leaf",
     index |-> IF b.found THEN b.index + 1 ELSE b.index]

\* index_of without its assertion: a Leaf is searched like any node
index_of_unchecked(node, key) ==
    [panic |-> FALSE,
     index |-> binary_search(node.keys, key).index]

\* Node::index_of: panics on a Leaf (assert!), else the binary search's index
index_of(node, key) ==
    [panic |-> node.node_type = "Leaf",
     index |-> binary_search(node.keys, key).index]

NoneV == <<>>
SomeV(v) == <<v>>

\* LeafLookup that takes the insertion point of a missing key for a match
LeafLookup_nearest(node, key) ==
    LET b == binary_search(node.keys, key) IN
    IF Len(node.children) = 0 THEN [st |-> "ok", val |-> NoneV]
    ELSE IF b.index >= Len(node.children) THEN [st |-> "ok", val |-> NoneV]
    ELSE IF At(node.children, b.index).tag = "Unloaded"
    THEN [st |-> "ok", val |-> SomeV(At(node.children, b.index).offset)]
    ELSE [st |-> "panic", val |-> NoneV]

\* the Leaf arm of find_offset_for: none for an empty leaf or a missing key,
\* else the offset of the child at the key's index (offset_or_panic)
LeafLookup(node, key) ==
    LET b == binary_search(node.keys, key) IN
    IF Len(node.children) = 0 THEN [st |-> "ok", val |-> NoneV]
    ELSE IF ~b.found THEN [st |-> "ok", val |-> NoneV]
    ELSE IF b.index >= Len(node.children) THEN [st |-> "panic", val |-> NoneV]
    ELSE IF At(node.children, b.index).tag = "Unloaded"
    THEN [st |-> "ok", val |-> SomeV(At(node.children, b.index).offset)]
    ELSE [st |-> "panic", val |-> NoneV]

\* find_offset_for once the child at index has returned r
FoundBelow(node, index, r, reads) ==
    [st |-> r.st, val |-> r.val,
     node |-> [node EXCEPT !.children = SetAt(@, index, from_boxed_node(r.node))],
     reads |-> reads]

\* Node::find_offset_for
RECURSIVE find_offset_for(_, _, _, _)
find_offset_for(node, key, dsk, bad) ==
    LET l == LeafLookup(node, key)
        io == index_of(node, key)
        g == NodeRef_get(At(node.children, io.index), dsk, bad)
    IN
    IF node.node_type = "Leaf"
    THEN [st |-> l.st, val |-> l.val, node |-> node, reads |-> <<>>]
    ELSE IF io.panic \/ io.index >= Len(node.children)
    THEN [st |-> "panic", val |-> NoneV, node |-> node, reads |-> <<>>]
    ELSE IF g.st # "ok"
    THEN [st |-> g.st, val |-> NoneV, node |-> node, reads |-> g.reads]
    ELSE LET r == find_offset_for(g.ref.node, key, dsk, bad) IN
         FoundBelow(node, io.index, r, g.reads \o r.reads)

---------------------------------------------------------------------------
(* Insertion *)

NoSplit == <<>>
SplitOff(k, n) == <<[key |-> k, node |-> n]>>

\* split_in_place that leaves the dividing key of an Internal split in self
split_in_place_keeping(node) ==
    LET half == Len(node.keys) \div 2
        lower_keys == Lower(node.keys, half)
        upper_keys == Upper(node.keys, half)
        lower_children == Lower(node.children, half)
        upper_children == Upper(node.children, half)
    IN
    IF \/ half > Len(node.children)
       \/ ~(Len(lower_children) > 1)
       \/ ~(Len(lower_keys) > 1)
       \/ ~(Len(upper_children) > 1)
       \/ ~(Len(upper_keys) > 1)
    THEN [panic |-> TRUE, key |-> 0, lower |-> node, upper |-> node]
    ELSE [panic |-> FALSE,
          key   |-> lower_keys[Len(lower_keys)],
          lower |-> [node EXCEPT !.node_type = IF @ = "Leaf" THEN "Leaf" ELSE "Internal",
                                 !.keys = lower_keys,
                                 !.children = lower_children],
          upper |-> [node_type |-> IF node.node_type = "Leaf" THEN "Leaf" ELSE "Internal",
                     keys |-> upper_keys,
                     children |-> upper_children, modified |-> TRUE]]

\* Node::split_in_place: self as it is left (lower), the dividing key and the
\* new sibling (upper); panic when a drain range or an assert! fails
split_in_place(node) ==
    LET half == Len(node.keys) \div 2
        lower_keys == Lower(node.keys, half)
        upper_keys == Upper(node.keys, half)
        lower_children == Lower(node.children, half)
        upper_children == Upper(node.children, half)
    IN
    IF \/ half > Len(node.children)
       \/ ~(Len(lower_children) > 1)
       \/ ~(Len(lower_keys) > 1)
       \/ ~(Len(upper_children) > 1)
       \/ ~(Len(upper_keys) > 1)
    THEN [panic |-> TRUE, key |-> 0, lower |-> node, upper |-> node]
    ELSE IF node.node_type = "Leaf"
    THEN [panic |-> FALSE,
          key   |-> lower_keys[Len(lower_keys)],
          lower |-> [node EXCEPT !.keys = lower_keys, !.children = lower_children],
          upper |-> [node_type |-> "Leaf", keys |-> upper_keys,
                     children |-> upper_children, modified |-> TRUE]]
    ELSE [panic |-> FALSE,
          key   |-> lower_keys[Len(lower_keys)],
          lower |-> [node EXCEPT !.node_type = "Internal",
                                 !.keys = SubSeq(lower_keys, 1, Len(lower_keys) - 1),
                                 !.children = lower_children],
          upper |-> [node_type |-> "Internal", keys |-> upper_keys,
                     children |-> upper_children, modified |-> TRUE]]

\* the tail shared by insert_nonroot and Node::insert:
\*   if self.children.len() > split_threshold { Ok(Some(self.split_in_place())) }
SplitIfOver(node, split_threshold, reads) ==
    IF Len(node.children) > split_threshold
    THEN LET s == split_in_place(node) IN
         IF s.panic
         THEN [st |-> "panic", split |-> NoSplit, node |-> node, reads |-> reads]
         ELSE [st |-> "ok", split |-> SplitOff(s.key, s.upper), node |-> s.lower,
               reads |-> reads]
    ELSE [st |-> "ok", split |-> NoSplit, node |-> node, reads |-> reads]

\* the Leaf arm of insert_nonroot: overwrite at target, or insert there
LeafInsert(node, target, key, value) ==
    IF target >= Len(node.keys)
    THEN [panic |-> TRUE, node |-> node]
    ELSE IF At(node.keys, target) = key
    THEN IF target >= Len(node.children)
         THEN [panic |-> TRUE, node |-> node]
         ELSE [panic |-> FALSE,
               node |-> [node EXCEPT !.children = SetAt(@, target, from_offset(value))]]
    ELSE IF target > Len(node.children)
    THEN [panic |-> TRUE, node |-> node]
    ELSE [panic |-> FALSE,
          node |-> [node EXCEPT !.keys = InsertAt(@, target, key),
                                !.children = InsertAt(@, target, from_offset(value))]]

\* what a parent does with the split its child reported:
\*   self.keys.insert(target, k); self.children.insert(target+1, n)
Absorb(node, target, split) ==
    IF split = NoSplit THEN [panic |-> FALSE, node |-> node]
    ELSE IF target > Len(node.keys) \/ target + 1 > Len(node.children)
    THEN [panic |-> TRUE, node |-> node]
    ELSE [panic |-> FALSE,
          node |-> [node EXCEPT
                      !.keys = InsertAt(@, target, split[1].key),
                      !.children = InsertAt(@, target + 1,
                                            from_boxed_node(split[1].node))]]

Panicked(node, reads) ==
    [st |-> "panic", split |-> NoSplit, node |-> node, reads |-> reads]

\* insert_nonroot once the child at target has returned r: put the child
\* back, take up its split, split self when over the threshold
NonrootAfterChild(node, target, r, reads, split_threshold) ==
    LET here == [node EXCEPT !.children = SetAt(@, target, from_boxed_node(r.node))]
        a == Absorb(here, target, r.split)
    IN
    IF r.st # "ok"
    THEN [st |-> r.st, split |-> NoSplit, node |-> here, reads |-> reads]
    ELSE IF a.panic THEN Panicked(here, reads)
    ELSE SplitIfOver(a.node, split_threshold, reads)

\* Node::insert_nonroot
RECURSIVE insert_nonroot(_, _, _, _, _, _)
insert_nonroot(node, key, value, split_threshold, dsk, bad) ==
    LET io == index_of(node, key)
        target == io.index
        l == LeafInsert(node, target, key, value)
        g == NodeRef_get_mut(At(node.children, target), dsk, bad)
    IN
    IF node.node_type = "Root" \/ io.panic THEN Panicked(node, <<>>)
    ELSE IF node.node_type = "Leaf"
    THEN IF l.panic THEN Panicked(node, <<>>)
         ELSE SplitIfOver(l.node, split_threshold, <<>>)
    ELSE IF target >= Len(node.children) THEN Panicked(node, <<>>)
    ELSE IF g.st # "ok"
    THEN [st |-> g.st, split |-> NoSplit, node |-> node, reads |-> g.reads]
    ELSE LET r == insert_nonroot(g.ref.node, key, value, split_threshold, dsk, bad) IN
         NonrootAfterChild(node, target, r, g.reads \o r.reads, split_threshold)

\* split_threshold = (order/2 + order%2)
SplitThreshold(ord) == (ord \div 2) + (ord % 2)

\* Node::insert once the child at target has returned r: as in insert_nonroot,
\* but a node that splits here is retyped first (Leaf stays Leaf, Root
\* becomes Internal, anything else panics)
RootAfterChild(node, target, r, reads, split_threshold) ==
    LET here == [node EXCEPT !.children = SetAt(@, target, from_boxed_node(r.node))]
        a == Absorb(here, target, r.split)
    IN
    IF r.st # "ok"
    THEN [st |-> r.st, split |-> NoSplit, node |-> here, reads |-> reads]
    ELSE IF a.panic THEN Panicked(here, reads)
    ELSE IF Len(a.node.children) > split_threshold
    THEN IF a.node.node_type = "Internal" THEN Panicked(a.node, reads)
         ELSE SplitIfOver([a.node EXCEPT !.node_type =
                              IF @ = "Root" THEN "Internal" ELSE @],
                          split_threshold, reads)
    ELSE [st |-> "ok", split |-> NoSplit, node |-> a.node, reads |-> reads]

\* Node::insert (the root's step)
Node_insert(node, key, value, ord, dsk, bad) ==
    LET split_threshold == SplitThreshold(ord)
        io == index_of(node, key)
        target == io.index
        g == NodeRef_get_mut(At(node.children, target), dsk, bad)
    IN
    IF io.panic \/ target >= Len(node.children) THEN Panicked(node, <<>>)
    ELSE IF g.st # "ok"
    THEN [st |-> g.st, split |-> NoSplit, node |-> node, reads |-> g.reads]
    ELSE LET r == insert_nonroot(g.ref.node, key, value, split_threshold, dsk, bad) IN
         RootAfterChild(node, target, r, g.reads \o r.reads, split_threshold)

\* OffsetTree::insert that leaves the placeholder NodeRef::from_offset(0) in
\* the root slot when the root step fails
OffsetTree_insert_placeholder(ref, ord, key, value, dsk, bad) ==
    LET g == NodeRef_get_mut(ref, dsk, bad) IN
    IF g.st # "ok" THEN [st |-> g.st, ref |-> ref, reads |-> g.reads]
    ELSE LET r == Node_insert(g.ref.node, key, value, ord, dsk, bad)
             rd == g.reads \o r.reads
         IN
         IF r.st # "ok"
         THEN [st |-> r.st, ref |-> from_offset(0), reads |-> rd]
         ELSE IF r.split = NoSplit
         THEN [st |-> "ok", ref |-> from_boxed_node(r.node), reads |-> rd]
         ELSE [st |-> "ok",
               ref |-> from_boxed_node(
                         [node_type |-> "Root",
                          modified  |-> TRUE,
                          keys      |-> <<r.split[1].key>>,
                          children  |-> <<from_boxed_node(r.node),
                                          from_boxed_node(r.split[1].node)>>]),
               reads |-> rd]

\* OffsetTree::insert on the root reference
OffsetTree_insert(ref, ord, key, value, dsk, bad) ==
    LET g == NodeRef_get_mut(ref, dsk, bad) IN
    IF g.st # "ok" THEN [st |-> g.st, ref |-> ref, reads |-> g.reads]
    ELSE LET r == Node_insert(g.ref.node, key, value, ord, dsk, bad)
             rd == g.reads \o r.reads
         IN
         IF r.st # "ok"
         THEN [st |-> r.st, ref |-> from_boxed_node(r.node), reads |-> rd]
         ELSE IF r.split = NoSplit
         THEN [st |-> "ok", ref |-> from_boxed_node(r.node), reads |-> rd]
         ELSE [st |-> "ok",
               ref |-> from_boxed_node(
                         [node_type |-> "Root",
                          modified  |-> TRUE,
                          keys      |-> <<r.split[1].key>>,
                          children  |-> <<from_boxed_node(r.node),
                                          from_boxed_node(r.split[1].node)>>]),
               reads |-> rd]

\* OffsetTree::offset_for on the root reference
OffsetTree_offset_for(ref, key, dsk, bad) ==
    LET g == NodeRef_get(ref, dsk, bad) IN
    IF g.st # "ok" THEN [st |-> g.st, val |-> NoneV, ref |-> ref, reads |-> g.reads]
    ELSE LET r == find_offset_for(g.ref.node, key, dsk, bad) IN
         [st |-> r.st, val |-> r.val, ref |-> from_boxed_node(r.node),
          reads |-> g.reads \o r.reads]

---------------------------------------------------------------------------
(* Stored trees: the well-formed images a tree can be reopened on *)

RECURSIVE SortedSeq(_)
SortedSeq(S) ==
    IF S = {} THEN <<>>
    ELSE LET m == CHOOSE x \in S : \A y \in S : x <= y IN
         <<m>> \o SortedSeq(S \ {m})

\* the offset of child i of the node stored at off
ChildOffset(off, i) == off * (MaxKey + 1) + i

\* The records of the subtree stored at off, which holds the keys of S in
\* (lo, hi]; level 1 is a Leaf, level depth the root; seps[l] are the keys
\* that separate at level l. Child i holds the keys <= keys[i] and > keys[i-1].
RECURSIVE StoreTree(_, _, _, _, _, _, _)
StoreTree(S, seps, off, lo, hi, level, depth) ==
    IF level = 1
    THEN LET ks == SortedSeq({k \in S : lo < k /\ k <= hi}) IN
         off :> [node_type |-> "Leaf", keys |-> ks,
                 children |-> [i \in 1..Len(ks) |-> StoredValue(ks[i])]]
    ELSE LET ks == SortedSeq({k \in seps[level] : lo < k /\ k < hi})
             n == Len(ks)
             Bound(i) == IF i = 0 THEN lo ELSE IF i = n + 1 THEN hi ELSE ks[i]
             RECURSIVE Kids(_)
             Kids(i) ==
                 IF i > n THEN <<>>
                 ELSE StoreTree(S, seps, ChildOffset(off, i), Bound(i), Bound(i + 1),
                                level - 1, depth)
                      @@ Kids(i + 1)
         IN
         (off :> [node_type |-> IF level = depth THEN "Root" ELSE "Internal",
                  keys |-> ks,
                  children |-> [i \in 1..(n + 1) |-> ChildOffset(off, i - 1)]])
         @@ Kids(0)

RootOffset(dsk) == CHOOSE o \in DOMAIN dsk : \A p \in DOMAIN dsk : o <= p

\* the shapes insertion is meant to produce: no node above the leaves has
\* fewer than 2 children
Shapes ==
    { shape \in { StoreTree(Keys, seps, 1, 0, MaxKey, depth, depth) :
                    seps \in [2..MaxDepth -> SUBSET (1..(MaxKey - 1))],
                    depth \in 1..MaxDepth } :
        \A o \in DOMAIN shape :
            shape[o].node_type # "Leaf" => Len(shape[o].children) >= 2 }

\* shape with only the keys of S stored in its leaves
Stored(shape, S) ==
    [o \in DOMAIN shape |->
        IF shape[o].node_type = "Leaf"
        THEN LET ks == SortedSeq({k \in S : \E i \in 1..Len(shape[o].keys) :
                                               shape[o].keys[i] = k})
             IN [shape[o] EXCEPT !.keys = ks,
                                 !.children = [i \in 1..Len(ks) |-> StoredValue(ks[i])]]
        ELSE shape[o]]

Images == { Stored(shape, S) : shape \in Shapes, S \in SUBSET Keys }

\* The reads that fail during one call: none, or those of one offset. Only an
\* offset the call reads can make a difference, so the choice is among the
\* offsets the call reads when nothing fails.
Faults(reads) == {{}} \cup {{reads[i]} : i \in 1..Len(reads)}

\* the (key, value-reference) pairs the leaves of an image store
LeafPairs(dsk) ==
    UNION { { <<dsk[o].keys[i], dsk[o].children[i]>> : i \in 1..Len(dsk[o].keys) } :
              o \in {p \in DOMAIN dsk : dsk[p].node_type = "Leaf"} }

---------------------------------------------------------------------------
(* The tree and its entry points *)

\* OffsetTree::from_root_offset
from_root_offset(offset, ord) ==
    [root_reference |-> from_offset(offset), order |-> ord]

\* OffsetTree::empty: a single empty Leaf as root
empty(ord, flag) ==
    [root_reference |-> from_boxed_node([node_type |-> "Leaf", keys |-> <<>>,
                                         children |-> <<>>, modified |-> flag]),
     order |-> ord]

Range(seq) == {seq[i] : i \in 1..Len(seq)}

\* the record of a top-level call: what was asked, what came back, the
\* offsets the backend was asked for in order, and the ones whose read failed
Call(op, key, value, bad, r) ==
    [op |-> op, key |-> key, value |-> value, st |-> r.st,
     val |-> IF op = "insert" THEN NoneV ELSE r.val,
     reads |-> r.reads,
     failed |-> {o \in Range(r.reads) : o \in bad \/ o \notin DOMAIN disk}]

NoCall == [op |-> "new", key |-> 0, value |-> 0, st |-> "ok", val |-> NoneV,
           reads |-> <<>>, failed |-> {}]

Init ==
    /\ \E ord \in Orders :
         \/ \E flag \in BOOLEAN :
              /\ root_reference = empty(ord, flag).root_reference
              /\ order = empty(ord, flag).order
              /\ disk = <<>>
              /\ made_by = "empty"
         \/ \E img \in Images :
              /\ root_reference = from_root_offset(RootOffset(img), ord).root_reference
              /\ order = from_root_offset(RootOffset(img), ord).order
              /\ disk = img
              /\ made_by = "from_root_offset"
    /\ inserted = <<>>
    /\ last = NoCall
    /\ status = "running"

\* a call that panicked ends the run: the tree is gone with the unwinding (the
\* variable keeps the value it had before the call, which nothing reads again)
After(st) == IF st = "panic" THEN "panicked" ELSE "running"

\* OffsetTree::offset_for
OffsetFor(key, bad) ==
    /\ status = "running"
    /\ LET r == OffsetTree_offset_for(root_reference, key, disk, bad) IN
         /\ root_reference' = IF r.st = "panic" THEN root_reference ELSE r.ref
         /\ last' = Call("offset_for", key, 0, bad, r)
         /\ status' = After(r.st)
    /\ UNCHANGED <<order, disk, made_by, inserted>>

\* OffsetTree::contains: Ok(self.offset_for(reader, key)?.is_some())
Contains(key, bad) ==
    /\ status = "running"
    /\ LET r == OffsetTree_offset_for(root_reference, key, disk, bad) IN
         /\ root_reference' = IF r.st = "panic" THEN root_reference ELSE r.ref
         /\ last' = Call("contains", key, 0, bad, r)
         /\ status' = After(r.st)
    /\ UNCHANGED <<order, disk, made_by, inserted>>

\* OffsetTree::insert that stores the root it marked modified as a new record
Insert_storing(key, value, bad) ==
    /\ status = "running"
    /\ LET r == OffsetTree_insert(root_reference, order, key, value, disk, bad)
           free == CHOOSE o \in 0..(Cardinality(DOMAIN disk) + 1) : o \notin DOMAIN disk
       IN
         /\ root_reference' = IF r.st = "panic" THEN root_reference ELSE r.ref
         /\ last' = Call("insert", key, value, bad, r)
         /\ status' = After(r.st)
         /\ inserted' = IF r.st = "ok" THEN (key :> value) @@ inserted ELSE inserted
         /\ disk' = IF r.st # "panic" /\ r.ref.tag = "Loaded" /\ r.ref.node.modified
                    THEN (free :> [node_type |-> r.ref.node.node_type,
                                   keys |-> r.ref.node.keys,
                                   children |-> <<>>]) @@ disk
                    ELSE disk
    /\ UNCHANGED <<order, made_by>>

\* OffsetTree::insert
Insert(key, value, bad) ==
    /\ status = "running"
    /\ LET r == OffsetTree_insert(root_reference, order, key, value, disk, bad) IN
         /\ root_reference' = IF r.st = "panic" THEN root_reference ELSE r.ref
         /\ last' = Call("insert", key, value, bad, r)
         /\ status' = After(r.st)
         /\ inserted' = IF r.st = "ok" THEN (key :> value) @@ inserted ELSE inserted
    /\ UNCHANGED <<order, disk, made_by>>

Next ==
    \/ \E key \in Keys :
         \E bad \in Faults(OffsetTree_offset_for(root_reference, key, disk, {}).reads) :
           OffsetFor(key, bad)
    \/ \E key \in Keys :
         \E bad \in Faults(OffsetTree_offset_for(root_reference, key, disk, {}).reads) :
           Contains(key, bad)
    \/ \E key \in Keys, value \in InsertValues :
         \E bad \in Faults(OffsetTree_insert(root_reference, order, key, value,
                                             disk, {}).reads) :
           Insert(key, value, bad)

Spec == Init /\ [][Next]_vars

---------------------------------------------------------------------------
(* Node::split_in_place on its own: the tail of insert_nonroot and of       *)
(* Node::insert applied to one node, which root_reference holds             *)

SplitKeys == 1..(MaxKey + 2)
SplitOrders == 2..(MaxOrder + 3)

\* The nodes the tail can be reached with: ascending keys; a Leaf with one
\* value-reference per key, an Internal with one child more than keys (a Root
\* is retyped Internal before it is split); modified is set by the get_mut
\* that reached the node.
SplitNodes ==
    { [node_type |-> t,
       keys      |-> SortedSeq(S),
       children  |-> IF t = "Leaf"
                     THEN [i \in 1..Cardinality(S) |->
                             from_offset(StoredValue(SortedSeq(S)[i]))]
                     ELSE [i \in 1..(Cardinality(S) + 1) |-> from_offset(i)],
       modified  |-> TRUE] :
        t \in {"Leaf", "Internal"}, S \in SUBSET SplitKeys }

SplitInit ==
    /\ \E ord \in SplitOrders, node \in SplitNodes :
         /\ root_reference = from_boxed_node(node)
         /\ order = ord
    /\ disk = <<>>
    /\ made_by = "node"
    /\ inserted = <<>>
    /\ last = NoCall
    /\ status = "running"

\* if self.children.len() > split_threshold { Ok(Some(self.split_in_place())) }
\* else { Ok(None) }, once on the node
SplitTail ==
    /\ status = "running"
    /\ last.op = "new"
    /\ LET r == SplitIfOver(root_reference.node, SplitThreshold(order), <<>>) IN
         /\ root_reference' = from_boxed_node(r.node)
         /\ last' = [op |-> "split_in_place", key |-> 0, value |-> 0, st |-> r.st,
                     val |-> r.split, reads |-> r.reads, failed |-> {},
                     before |-> root_reference.node]
         /\ status' = After(r.st)
    /\ UNCHANGED <<order, disk, made_by, inserted>>

SplitNext == SplitTail

SplitSpec == SplitInit /\ [][SplitNext]_vars

---------------------------------------------------------------------------
(* What the claims speak of *)

\* the node a reference stands for: its resolved node, or the stored record
NodeAt(ref) ==
    IF ref.tag = "Loaded" THEN ref.node ELSE FromDiskNode(disk[ref.offset])

Resolvable(ref) == ref.tag = "Loaded" \/ ref.offset \in DOMAIN disk

\* every node of the tree under ref, in memory or still on disk, with its depth
RECURSIVE NodesUnder(_, _)
NodesUnder(ref, depth) ==
    IF ~Resolvable(ref) THEN {}
    ELSE LET node == NodeAt(ref) IN
         {[node_type |-> node.node_type, keys |-> node.keys,
           nchildren |-> Len(node.children), depth |-> depth]}
         \cup (IF node.node_type = "Leaf" THEN {}
               ELSE UNION {NodesUnder(node.children[i], depth + 1) :
                             i \in 1..Len(node.children)})

TreeNodes == NodesUnder(root_reference, 0)

\* the leaf entries of the tree under ref, as a sequence in key order
RECURSIVE EntriesUnder(_)
EntriesUnder(ref) ==
    IF ~Resolvable(ref) THEN <<>>
    ELSE LET node == NodeAt(ref)
             RECURSIVE Cat(_)
             Cat(i) == IF i > Len(node.children) THEN <<>>
                       ELSE EntriesUnder(node.children[i]) \o Cat(i + 1)
         IN
         IF node.node_type = "Leaf"
         THEN [i \in 1..Len(node.keys) |->
                 <<node.keys[i],
                   IF i <= Len(node.children) /\ node.children[i].tag = "Unloaded"
                   THEN node.children[i].offset ELSE -1>>]
         ELSE Cat(1)

TreeEntries == EntriesUnder(root_reference)

\* what offset_for(key) returns on the tree under ref, the backend healthy
LookupIn(ref, key) == OffsetTree_offset_for(ref, key, disk, {})

\* what offset_for(key) returns on the tree as it is, the backend healthy
Lookup(key) == LookupIn(root_reference, key)

StoredKeys == {p[1] : p \in LeafPairs(disk)}

\* the reference map: the stored pairs, overridden by the inserts that returned
Expected(key) ==
    IF key \in DOMAIN inserted THEN SomeV(inserted[key])
    ELSE IF key \in StoredKeys THEN SomeV(StoredValue(key))
    ELSE NoneV

Healthy == last.failed = {}

ArityHolds ==
    \A n \in TreeNodes :
        n.nchildren = IF n.node_type = "Leaf" THEN Len(n.keys) ELSE Len(n.keys) + 1

Ascending ==
    \A n \in TreeNodes : \A i \in 1..(Len(n.keys) - 1) : n.keys[i] < n.keys[i + 1]

NoUnderflow == \A n \in TreeNodes : n.depth > 0 => n.nchildren >= 2

WithinOrder == \A n \in TreeNodes : n.nchildren <= SplitThreshold(order) + 1

Balanced ==
    \A m, n \in TreeNodes :
        (m.node_type = "Leaf" /\ n.node_type = "Leaf") => m.depth = n.depth

\* the keys stored in the leaves of the subtree under ref
KeysUnder(ref) == {e[1] : e \in Range(EntriesUnder(ref))}

\* every separator of the subtree under ref bounds the keys left of it from
\* above and lies below the keys right of it
RECURSIVE SeparatedUnder(_)
SeparatedUnder(ref) ==
    IF ~Resolvable(ref) THEN TRUE
    ELSE LET node == NodeAt(ref) IN
         \/ node.node_type = "Leaf"
         \/ /\ \A i \in 1..Len(node.keys) :
                  i + 1 <= Len(node.children)
                    => /\ \A k \in KeysUnder(node.children[i]) : k <= node.keys[i]
                       /\ \A k \in KeysUnder(node.children[i + 1]) : k > node.keys[i]
            /\ \A i \in 1..Len(node.children) : SeparatedUnder(node.children[i])

SeparatorsHold == SeparatedUnder(root_reference)

\* insert and offset_for descend to the same leaf: on the tree as it is they
\* ask the backend for the same offsets in the same order
SameDescent ==
    \A key \in Keys, value \in InsertValues :
        OffsetTree_insert(root_reference, order, key, value, disk, {}).reads
            = Lookup(key).reads

RootOnlyOnTopIn(ref) ==
    \A n \in NodesUnder(ref, 0) : n.node_type = "Root" => n.depth = 0

RootOnlyOnTop == RootOnlyOnTopIn(root_reference)

\* what Node::insert reports to OffsetTree::insert for the call (key, value)
\* on the tree as it is, the backend healthy
RootReport(key, value) ==
    Node_insert(NodeRef_get_mut(root_reference, disk, {}).ref.node,
                key, value, order, disk, {})

\* The places of node references in the tree: <<>> is the root reference,
\* Append(p, i) the i-th child link of the node at p (leaf links are
\* value-references, not node references).

\* the reference at place p as memory holds it: <<ref>>, or <<>> when a
\* reference above it is not resolved
RECURSIVE RefAt(_, _)
RefAt(ref, p) ==
    IF p = <<>> THEN <<ref>>
    ELSE IF /\ ref.tag = "Loaded"
            /\ ref.node.node_type # "Leaf"
            /\ p[1] <= Len(ref.node.children)
    THEN RefAt(ref.node.children[p[1]], Tail(p))
    ELSE <<>>

IsLoadedAt(ref, p) ==
    LET r == RefAt(ref, p) IN r # <<>> /\ r[1].tag = "Loaded"

\* the places at and under p, where ref is, that hold a resolved node
RECURSIVE LoadedUnder(_, _)
LoadedUnder(ref, p) ==
    IF ref.tag # "Loaded" THEN {}
    ELSE {p} \cup (IF ref.node.node_type = "Leaf" THEN {}
                   ELSE UNION {LoadedUnder(ref.node.children[i], Append(p, i)) :
                                 i \in 1..Len(ref.node.children)})

LoadedPlaces(ref) == LoadedUnder(ref, <<>>)

\* the offsets of the node references in memory under ref that are Unloaded
RECURSIVE UnloadedUnder(_)
UnloadedUnder(ref) ==
    IF ref.tag # "Loaded" THEN {ref.offset}
    ELSE IF ref.node.node_type = "Leaf" THEN {}
    ELSE UNION {UnloadedUnder(ref.node.children[i]) :
                  i \in 1..Len(ref.node.children)}

\* the stored record the node at place p of a reopened tree was or would be
\* loaded from: <<record>>, or <<>> when there is none
RECURSIVE RecordAt(_, _)
RecordAt(offset, p) ==
    IF offset \notin DOMAIN disk THEN <<>>
    ELSE IF p = <<>> THEN <<disk[offset]>>
    ELSE IF disk[offset].node_type # "Leaf" /\ p[1] <= Len(disk[offset].children)
    THEN RecordAt(disk[offset].children[p[1]], Tail(p))
    ELSE <<>>

\* the keys or the children of an in-memory node are not those of the record
DiffersFrom(node, rec) ==
    \/ node.keys # rec.keys
    \/ node.node_type # rec.node_type
    \/ Len(node.children) # Len(rec.children)
    \/ \E i \in 1..Len(node.children) :
         /\ i <= Len(rec.children)
         /\ node.children[i].tag = "Unloaded"
         /\ node.children[i].offset # rec.children[i]

\* the tree under ref with every reference resolved, in memory or from its
\* stored record: the type, keys and flag of every node, the value-references
\* of every Leaf
RECURSIVE FullView(_)
FullView(ref) ==
    IF ~Resolvable(ref) THEN <<>>
    ELSE LET node == NodeAt(ref) IN
         <<[node_type |-> node.node_type, keys |-> node.keys,
            modified |-> node.modified,
            children |-> IF node.node_type = "Leaf" THEN node.children
                         ELSE [i \in 1..Len(node.children) |->
                                 FullView(node.children[i])]]>>

\* the place of the leaf a call for key descends to from ref
RECURSIVE Descent(_, _)
Descent(ref, key) ==
    IF ~Resolvable(ref) \/ NodeAt(ref).node_type = "Leaf" THEN <<>>
    ELSE LET i == index_of(NodeAt(ref), key).index + 1 IN
         IF i <= Len(NodeAt(ref).children)
         THEN <<i>> \o Descent(NodeAt(ref).children[i], key)
         ELSE <<>>

\* The references beside the path of key are kept: walking from the tree
\* before a call and the tree after it down the path index_of selects for key,
\* every child link off the path is the same reference after as before, with
\* the whole subtree it holds.
RECURSIVE OffPathKept(_, _, _)
OffPathKept(before, after, key) ==
    IF ~Resolvable(before) THEN after = before
    ELSE IF ~Resolvable(after) THEN FALSE
    ELSE LET b == NodeAt(before)
             a == NodeAt(after)
             i == index_of(b, key).index + 1
         IN
         \/ b.node_type = "Leaf"
         \/ /\ a.node_type # "Leaf"
            /\ \A j \in 1..Len(b.children) :
                  j # i => (j <= Len(a.children) /\ a.children[j] = b.children[j])
            /\ (i <= Len(b.children) /\ i <= Len(a.children))
                  => OffPathKept(b.children[i], a.children[i], key)

\* the value-references there are: those stored with the keys and those
\* handed to insert
ValueReferences == {StoredValue(k) : k \in Keys} \cup InsertValues

\* every child link of every Leaf in memory under ref is Unloaded
RECURSIVE LeafLinksUnloaded(_)
LeafLinksUnloaded(ref) ==
    \/ ref.tag # "Loaded"
    \/ IF ref.node.node_type = "Leaf"
       THEN \A i \in 1..Len(ref.node.children) : ref.node.children[i].tag = "Unloaded"
       ELSE \A i \in 1..Len(ref.node.children) : LeafLinksUnloaded(ref.node.children[i])

---------------------------------------------------------------------------
(* Claims *)

\* C1: round trip. Starting from an empty tree, every insert call completes
\* successfully and afterwards offset_for(k) returns Some(v) for every
\* inserted pair (k, v).
C1_RoundTrip ==
    (made_by = "empty" /\ last.op = "insert")
        => /\ last.st = "ok"
           /\ Lookup(last.key).val = SomeV(last.value)
           /\ \A k \in DOMAIN inserted : Lookup(k).val = SomeV(inserted[k])

\* C2: overwrite. Inserting a key that is already in the tree with a different
\* value makes offset_for(key) return the second value, leaves the number of
\* leaf entries unchanged and leaves every other key with its previous value.
C2_Overwrite ==
    (/\ last.op = "insert" /\ Healthy
     /\ last.key \in StoredKeys
     /\ last.value # StoredValue(last.key))
        => /\ last.st = "ok"
           /\ Lookup(last.key).val = SomeV(last.value)
           /\ Len(TreeEntries) = Cardinality(StoredKeys \cup DOMAIN inserted)
           /\ \A k \in Keys \ {last.key} : Lookup(k).val = Expected(k)

\* C3: absent keys. offset_for(k) of a key that was never inserted returns
\* none, without error or panic, whatever calls came before; this includes a
\* freshly created empty tree.
C3_AbsentKeys ==
    (/\ last.op = "offset_for" /\ Healthy
     /\ last.key \notin StoredKeys \cup DOMAIN inserted)
        => (last.st = "ok" /\ last.val = NoneV)

C3_Witness ==
    /\ made_by = "empty"
    /\ last.op = "offset_for"
    /\ last.st = "ok"
    /\ last.val = NoneV

\* C4: lookup on a reopened tree. On a tree made by from_root_offset on a
\* well-formed stored tree, offset_for(k) returns Some(v) exactly when some
\* leaf stores the pair (k, v) and none otherwise, for every key k.
C4_ReopenedLookup ==
    (/\ made_by = "from_root_offset"
     /\ last.op = "offset_for" /\ Healthy
     /\ inserted = <<>>)
        => /\ last.st = "ok"
           /\ \A v \in {StoredValue(k) : k \in Keys} :
                (last.val = SomeV(v)) <=> (<<last.key, v>> \in LeafPairs(disk))
           /\ (last.val = NoneV) <=> (last.key \notin StoredKeys)

\* a stored key equal to a separator of the root is found in the child left of it
C4_Witness ==
    /\ made_by = "from_root_offset"
    /\ last.op = "offset_for"
    /\ root_reference.tag = "Loaded"
    /\ root_reference.node.node_type = "Root"
    /\ last.key \in Range(root_reference.node.keys)
    /\ last.val = SomeV(StoredValue(last.key))

\* C5: arity. An insertion returns and leaves every Internal or Root node with
\* exactly len(keys)+1 children and every Leaf with exactly len(keys) children.
C5_ArityAfterInsert ==
    (last.op = "insert" /\ Healthy) => (last.st = "ok" /\ ArityHolds)

\* C6: ordering. An insertion returns and leaves the key sequence of every
\* node strictly ascending.
C6_AscendingAfterInsert ==
    (last.op = "insert" /\ Healthy) => (last.st = "ok" /\ Ascending)

\* C7: no underflow. An insertion into a tree grown from the empty tree returns
\* and leaves every non-root node with at least 2 children.
C7_NoUnderflowAfterInsert ==
    (made_by = "empty" /\ last.op = "insert") => (last.st = "ok" /\ NoUnderflow)

\* C8: order fidelity. An insertion into a tree grown from the empty tree with
\* a given order returns and leaves no node with more than ceil(order/2)+1
\* children.
C8_WithinOrderAfterInsert ==
    (made_by = "empty" /\ last.op = "insert") => (last.st = "ok" /\ WithinOrder)

\* C9: balance. An insertion returns and leaves all leaves of the tree at the
\* same depth.
C9_BalancedAfterInsert ==
    (last.op = "insert" /\ Healthy) => (last.st = "ok" /\ Balanced)

\* C10: corruption fatality. When the load of an offset that offset_for,
\* contains or insert resolves fails, the call returns that failure; the failed
\* load is the last read of the call and no offset is read twice (no retry).
C10_CorruptionFatal ==
    last.failed # {}
        => /\ last.st = "err"
           /\ last.val = NoneV
           /\ last.reads[Len(last.reads)] \in last.failed
           /\ \A i \in 1..(Len(last.reads) - 1) : last.reads[i] \notin last.failed
           /\ \A i, j \in 1..Len(last.reads) : last.reads[i] = last.reads[j] => i = j

\* a lookup whose root loads and whose leaf fails to load
C10_Witness ==
    /\ last.op = "offset_for"
    /\ Len(last.reads) = 2
    /\ last.failed = {last.reads[2]}
    /\ last.st = "err"

\* C11: copy-on-write. No call of insert, offset_for or contains writes to the
\* backend: every step leaves the set of stored records and their contents as
\* they were, so a node that was marked or changed exists only in memory.
C11_CopyOnWrite == [][disk' = disk]_vars

\* an insert has marked the loaded root modified; its stored record is as before
C11_Witness ==
    /\ last.op = "insert"
    /\ disk # <<>>
    /\ root_reference.tag = "Loaded"
    /\ root_reference.node.modified
    /\ root_reference.node # FromDiskNode(disk[RootOffset(disk)])

C14_SeparatingKey ==
    (last.op = "split_in_place" /\ last.st = "ok" /\ last.val # NoSplit)
        => LET before == last.before
               lower == root_reference.node
               upper == last.val[1].node
               key == last.val[1].key
               half == Len(before.keys) \div 2
           IN
           /\ Len(lower.children) = half
           /\ lower.children \o upper.children = before.children
           /\ upper.keys = SubSeq(before.keys, half + 1, Len(before.keys))
           /\ before.node_type = "Leaf"
                => /\ lower.keys \o upper.keys = before.keys
                   /\ key = lower.keys[Len(lower.keys)]
                   /\ \A i \in 1..Len(upper.keys) : key < upper.keys[i]
           /\ before.node_type # "Leaf"
                => /\ lower.keys \o <<key>> \o upper.keys = before.keys
                   /\ key \notin Range(lower.keys) \cup Range(upper.keys)

\* an Internal node has been split
C14_Witness ==
    /\ last.op = "split_in_place"
    /\ last.st = "ok"
    /\ last.val # NoSplit
    /\ last.before.node_type = "Internal"
    /\ Len(root_reference.node.keys) + Len(last.val[1].node.keys) + 1
          = Len(last.before.keys)

\* C13: separator ordering. An insertion returns and leaves, for every node
\* above the leaves and every separator index i, every key stored under child
\* i <= keys[i] and every key stored under child i+1 > keys[i]; insertion
\* selects the child to descend into by the same rule as search.
C13_SeparatorOrdering ==
    (last.op = "insert" /\ Healthy)
        => (last.st = "ok" /\ SeparatorsHold /\ SameDescent)

\* C15: root growth. An insert whose root step reports a split returns and
\* leaves a root tagged Root with exactly one key, the reported one, and
\* exactly two children: the old root, now Internal or still a Leaf, and the
\* new sibling; after any insert no node below the top is tagged Root.
C15_RootGrowth ==
    [][(last'.op = "insert" /\ last'.failed = {})
         => /\ last'.st = "ok"
            /\ RootOnlyOnTopIn(root_reference')
            /\ LET r == RootReport(last'.key, last'.value) IN
               r.split # NoSplit
                 => /\ root_reference'.tag = "Loaded"
                    /\ root_reference'.node.node_type = "Root"
                    /\ root_reference'.node.keys = <<r.split[1].key>>
                    /\ Len(root_reference'.node.children) = 2
                    /\ root_reference'.node.children[1].tag = "Loaded"
                    /\ root_reference'.node.children[1].node.node_type
                          \in {"Internal", "Leaf"}
                    /\ root_reference'.node.children[2]
                          = from_boxed_node(r.split[1].node)]_vars

\* C16: leaf insertion step. An insert that reaches a Leaf does not panic;
\* afterwards the leaf entries hold the pair (key, value), overwritten in
\* place or inserted at its place in key order, for every position of the
\* key, a key greater than every key of the leaf and an empty leaf included,
\* and hold no other new key.
C16_LeafStep ==
    (last.op = "insert" /\ Healthy)
        => /\ last.st # "panic"
           /\ \E i \in 1..Len(TreeEntries) : TreeEntries[i] = <<last.key, last.value>>
           /\ \A i \in 1..(Len(TreeEntries) - 1) :
                 TreeEntries[i][1] < TreeEntries[i + 1][1]
           /\ KeysUnder(root_reference) = StoredKeys \cup DOMAIN inserted

\* what one returned call does to the references: a Loaded reference stays
\* Loaded; every read of the call either resolves one reference that was not
\* Loaded or is the call's failed read, and no offset is read twice; the
\* reference of a failed read is Unloaded at the same offset afterwards
ResolutionStep ==
    status' = "running"
        => /\ LoadedPlaces(root_reference) \subseteq LoadedPlaces(root_reference')
           /\ Len(last'.reads)
                 = Cardinality(LoadedPlaces(root_reference')
                                 \ LoadedPlaces(root_reference))
                   + Cardinality(last'.failed)
           /\ \A i, j \in 1..Len(last'.reads) : last'.reads[i] = last'.reads[j] => i = j
           /\ last'.failed \subseteq UnloadedUnder(root_reference')

\* C17 (as amended): one-way resolution, at most one successful read. A
\* reference goes from Unloaded(offset) to Loaded on its first successful read
\* or write access and never back; a Loaded reference is never re-read; a failed
\* load leaves the reference Unloaded at the same offset, and the next access
\* to it reads the backend again.
C17_ResolvedOnce == [][ResolutionStep]_vars

\* C17 (as stated): as above, and the backend is read at most once per
\* reference across calls: no call reads an offset the call before it read.
C17_ReadOnce ==
    [][/\ ResolutionStep
       /\ Range(last'.reads) \cap Range(last.reads) = {}]_vars

\* the root is resolved, and the load of one of its children has just failed
C17_Witness ==
    /\ root_reference.tag = "Loaded"
    /\ last.failed # {}
    /\ \E i \in 1..Len(root_reference.node.children) :
         /\ root_reference.node.children[i].tag = "Unloaded"
         /\ root_reference.node.children[i].offset \in last.failed

C19_InsertFrame ==
    [][(last'.op = "insert" /\ status' = "running")
         => OffPathKept(root_reference, root_reference', last'.key)]_vars

\* an insert has marked the root and left a resolved, unmarked leaf beside its
\* path as it was
C19_Witness ==
    /\ last.op = "insert"
    /\ last.st = "err"
    /\ root_reference.tag = "Loaded"
    /\ root_reference.node.modified
    /\ root_reference.node.node_type = "Root"
    /\ \E i \in 1..Len(root_reference.node.children) :
         /\ i # Descent(root_reference, last.key)[1]
         /\ root_reference.node.children[i].tag = "Loaded"
         /\ ~root_reference.node.children[i].node.modified

\* C20: search frame. offset_for and contains change no node's type, keys,
\* value-references, number of children or modified flag, and not the order;
\* off the searched path the load state is unchanged too, so the only change
\* is the resolution of references on the path; every lookup returns
\* afterwards what it would have returned before. (A call that leaves the
\* tree as it was satisfies all of this.)
C20_SearchFrame ==
    [][last'.op \in {"offset_for", "contains"}
         => /\ order' = order
            /\ \/ root_reference' = root_reference
               \/ /\ FullView(root_reference') = FullView(root_reference)
                  /\ OffPathKept(root_reference, root_reference', last'.key)
                  /\ \A k \in Keys :
                        LET now == LookupIn(root_reference', k)
                            before == LookupIn(root_reference, k)
                        IN now.st = before.st /\ now.val = before.val]_vars

\* a lookup has resolved the root and a leaf of a stored tree and found the key
C20_Witness ==
    /\ last.op \in {"offset_for", "contains"}
    /\ Len(last.reads) = 2
    /\ last.failed = {}
    /\ last.val # NoneV
    /\ IsLoadedAt(root_reference, Descent(root_reference, last.key))

\* C21: failed insert. An insert during whose descent a resolution fails
\* returns the error; no (key, value-reference) entry of the tree is added,
\* removed or changed by it; and every lookup that does not reach the failing
\* reference, the reference failing still, returns afterwards the value it
\* would have returned before.
C21_FailedInsert ==
    [][(last'.op = "insert" /\ last'.failed # {})
         => /\ last'.st = "err"
            /\ EntriesUnder(root_reference') = EntriesUnder(root_reference)
            /\ \A k \in Keys :
                  LET now == OffsetTree_offset_for(root_reference', k, disk,
                                                   last'.failed)
                  IN \/ now.st = "err" /\ Range(now.reads) \cap last'.failed # {}
                     \/ /\ now.st = "ok"
                        /\ now.val = LookupIn(root_reference, k).val]_vars

\* an insert has failed on one leaf under a resolved root, and a key stored in
\* another leaf is still found while that reference keeps failing
C21_Witness ==
    /\ last.op = "insert"
    /\ last.st = "err"
    /\ Len(last.reads) = 2
    /\ root_reference.tag = "Loaded"
    /\ \E k \in StoredKeys :
         LET now == OffsetTree_offset_for(root_reference, k, disk, last.failed)
         IN now.st = "ok" /\ now.val = SomeV(StoredValue(k))

\* C22: opaque value-references. In every reachable state the child links of
\* every Leaf are Unloaded value-references; no call, an insert into a tree
\* whose root is a Leaf included, asks the backend to decode a value-reference
\* as a node; no lookup panics in offset_or_panic.
C22_OpaqueValues ==
    /\ LeafLinksUnloaded(root_reference)
    /\ Range(last.reads) \cap ValueReferences = {}
    /\ last.op \in {"offset_for", "contains"} => last.st # "panic"

\* an insert of a stored key into a tree whose root is a Leaf that holds it:
\* the call has ended without a read of the key's value-reference
C22_Witness ==
    /\ last.op = "insert"
    /\ root_reference.tag = "Loaded"
    /\ root_reference.node.node_type = "Leaf"
    /\ last.key \in Range(root_reference.node.keys)
    /\ last.reads = <<>>

====
